---- MODULE Spec2Model ----
(***************************************************************************)
(* Model of the chess codec of ChessFileStorage: encode (bytes to games)   *)
(* and decode (games to bytes) of src/chess_storage.py, with the bit       *)
(* helpers of src/util.py.  The rules engine (python-chess) is an outside  *)
(* library; it is modelled by a small fixed game with the same interface:  *)
(* an ordered legal-move list per position, a push operation and the       *)
(* terminal tests the codec calls.                                         *)
(***************************************************************************)
EXTENDS Integers, Sequences, FiniteSets, TLC

(***************************************************************************)
(* Bounds of the model's inputs.                                           *)
(***************************************************************************)
\* longest free prefix of an input buffer, in bytes
MaxHead == 2
\* length of the run of one repeated byte that can follow the prefix, in bytes
MaxFill == 13
\* most games in a move list handed to decode by a caller
MaxParts == 2
\* most moves per game in a move list handed to decode by a caller
MaxMoves == 3

\* byte values the free prefix is drawn from
ByteVals == {0, 66, 67, 255}
\* byte values of the repeated tail
FillVals == {0, 255}

\* upload paths: directory, stem and extension as written by the client
FilePaths == { [dir |-> "temp_uploads", stem |-> "notes", ext |-> "TXT"] }

(***************************************************************************)
(* Python helpers                                                          *)
(***************************************************************************)
Min(a, b) == IF a <= b THEN a ELSE b

\* s[a:b] on a sequence, with Python's clipping (a, b >= 0, 0-based)
PySlice(s, a, b) ==
    LET hi == Min(b, Len(s))
    IN  IF a >= hi THEN << >> ELSE [i \in 1..(hi - a) |-> s[a + i]]

RECURSIVE Flatten(_)
\* "".join(list of strings)
Flatten(ss) == IF ss = << >> THEN << >> ELSE Head(ss) \o Flatten(Tail(ss))

RECURSIVE Bin(_)
\* the binary digits of a non-negative integer, most significant first ("0" for 0)
Bin(n) == IF n < 2 THEN <<n>> ELSE Bin(n \div 2) \o <<n % 2>>

\* left-pad with zeros up to width w; never truncates
ZFill(s, w) == IF Len(s) >= w THEN s ELSE [i \in 1..(w - Len(s)) |-> 0] \o s

\* util.to_binary_string: format(number, '0{length}b')
to_binary_string(number, length) == ZFill(Bin(number), length)

RECURSIVE Log2Floor(_)
\* int(log2(n)) for n >= 1
Log2Floor(n) == IF n < 2 THEN 0 ELSE 1 + Log2Floor(n \div 2)

RECURSIVE BitVal(_)
\* int(s, 2)
BitVal(s) == IF s = << >> THEN 0 ELSE 2 * BitVal(SubSeq(s, 1, Len(s) - 1)) + s[Len(s)]

RECURSIVE Pow2(_)
Pow2(w) == IF w = 0 THEN 1 ELSE 2 * Pow2(w - 1)

\* str.lower() on the extensions that occur
Lower(s) == CASE s = "TXT" -> "txt" [] s = "Bin" -> "bin" [] OTHER -> s

(***************************************************************************)
(* Rules engine (chess.Board): positions 0..9, position 0 is the initial   *)
(* one.  NextPos[p+1][k+1] is the position after playing the move of       *)
(* ordinal k at p; the length of NextPos[p+1] is the number of legal moves.*)
(***************************************************************************)
NextPos == <<
    <<1, 2, 7>>,                  \* 0: initial position, 3 legal moves
    <<0, 3, 6>>,                  \* 1: 3 legal moves
    <<3, 4, 5, 0, 1, 2, 6, 7>>,   \* 2: 8 legal moves
    <<4, 0, 5, 2, 1>>,            \* 3: 5 legal moves
    <<5, 8, 9, 0>>,               \* 4: 4 legal moves
    <<0, 1>>,                     \* 5: insufficient material
    <<0>>,                        \* 6: one legal move
    << >>,                        \* 7: no legal move (mate or stalemate)
    <<0, 2, 4>>,                  \* 8: a draw can be claimed
    <<1, 3, 4, 2, 0, 9>> >>       \* 9: 6 legal moves

Positions == 0..(Len(NextPos) - 1)
InitialPos == 0

\* the UCI strings are numbered; every position names its moves differently
Uci(p, k) == ((k + p) % Len(NextPos[p + 1])) + 1

\* list(board.generate_legal_moves()) as UCI names, in the engine's order
LegalMoves(p) == [i \in 1..Len(NextPos[p + 1]) |-> Uci(p, i - 1)]

\* list.index(x): the 0-based ordinal of the first occurrence (x must occur)
IndexOf(list, x) == (CHOOSE i \in 1..Len(list) : list[i] = x /\ \A j \in 1..(i - 1) : list[j] # x) - 1

\* board.push_uci(move_uci) for a legal move
PushUci(p, uci) == NextPos[p + 1][IndexOf(LegalMoves(p), uci) + 1]

is_insufficient_material(p) == p = 5
can_claim_draw(p) == p = 8

(***************************************************************************)
(* Inputs                                                                  *)
(***************************************************************************)
SeqsUpTo(S, n) == UNION { [1..k -> S] : k \in 0..n }

\* the input files: a free prefix (the empty one included), alone or followed by
\* a run of MaxFill equal bytes
Buffers ==
    { head \o [i \in 1..k |-> f] : head \in SeqsUpTo(ByteVals, MaxHead),
                                   f \in FillVals, k \in {0, MaxFill} }

\* move lists a caller can hand to decode: games over two of the engine's move names
DecodeUcis == {1, 2}
MoveLists == SeqsUpTo(SeqsUpTo(DecodeUcis, MaxMoves), MaxParts)

\* games created on the server in one run
MaxGames == 3

\* the names files are stored under
FileNames == {"notes.TXT", "photo.png"}

\* the PGNs start_game is called with, as the move lists of their games
AppPgns == { << <<2, 2>> >>, << <<2, 2>>, <<2, 2>> >> }

\* the move names of the games a thread is started on its own with
ThreadUcis == {1, 2, 3}

\* the games a thread is started on its own with
ThreadGames == SeqsUpTo(ThreadUcis, MaxMoves)

\* concurrent start_game requests, each storing the record of its first game
MaxCalls == 2

\* the widest window read on its own
MaxWidth == 16

\* the files windows are read from on their own
WindowBuffers == SeqsUpTo(ByteVals, MaxHead + 1)

\* file types the metadata fetch at the end of decode can report
FileTypes == {"txt", ""}

(***************************************************************************)
(* State                                                                   *)
(***************************************************************************)
VARIABLES
    file_path,              \* encode: argument
    file_bytes,             \* encode: content of the file at file_path
    pc,                     \* encode: "idle", "start", "loop", "return", "done", "error"
    file_bit_index,         \* encode: bit cursor
    chess_board,            \* encode: current position
    move_stack,             \* encode: chess_board.move_stack as UCI names
    moves_in_current_game,  \* encode: per-game move counter
    output_pgns,            \* encode: the closed Parts
    result,                 \* encode: the returned dict, or the raised error
    stack_chunks,           \* history: the window that selected each move of move_stack
    part_chunks,            \* history: the same windows, for each closed Part
    moves_list,             \* decode: argument
    dpc,                    \* decode: "idle", "games", "done", "error"
    game_i,                 \* decode: 1-based number of the game being replayed (0: none yet)
    move_i,                 \* decode: moves of that game already replayed
    board,                  \* decode: current position
    output_data,            \* decode: the bit accumulator
    out_file,               \* decode: content of the file at output_file_path
    dresult,                \* decode: the returned file type, or the raised error
    first_result,           \* what an earlier encode call on the same file returned
    win,                    \* the last window read on its own: cursor, width, chunk
    metadata,               \* app: data['games'] of game_metadata.json
    lichess,                \* app: the games on the server, by game id: moves played, resignations
    threads,                \* app: the move-execution thread of each game
    retrieved,              \* app: what the last retrieve request answered
    started,                \* app: what the last start_game call returned or raised
    meta_file,              \* app: game_metadata.json is "missing", "whole" or "empty" (cut to length 0)
    stores,                 \* app: the store_game_metadata calls in progress, step by step
    found                   \* app: what the last find_games_by_filename call on its own returned

enc_vars == <<file_path, file_bytes, pc, file_bit_index, chess_board, move_stack,
              moves_in_current_game, output_pgns, result, stack_chunks, part_chunks>>
dec_vars == <<moves_list, dpc, game_i, move_i, board, output_data, out_file, dresult>>
meta_vars == <<meta_file, stores, found>>
app_vars == <<metadata, lichess, threads, retrieved, started, meta_vars>>
other_vars == <<first_result, win, app_vars>>
vars == <<enc_vars, dec_vars, other_vars>>

NoResult == [kind |-> "none"]

(***************************************************************************)
(* encode                                                                  *)
(***************************************************************************)
MAX_MOVES_PER_GAME == 100

file_bits_count == Len(file_bytes) * 8

\* file_path.rsplit('.', 1)[1].lower() if '.' in file_path else ''
FileExtension(path) == Lower(path.ext)

\* os.path.basename(file_path)
Basename(path) == <<path.stem, path.ext>>

\* mutant: the empty-file test is missing
IsEmptyFileNever(bytes) == FALSE

\* the "File is empty" test
IsEmptyFile(bytes) == Len(bytes) = 0

\* mutant: the move cap is never applied
CapReachedNever(count) == FALSE

\* the cap is tested one move late
CapReachedLate(count) == count > MAX_MOVES_PER_GAME

\* the "current game is too long" test
CapReached(count) == count >= MAX_MOVES_PER_GAME

\* the width is not clamped to what is left of the file
MaxBinaryLengthNoClamp(n, remaining) == Log2Floor(n)

\* max_binary_length for a position with n legal moves
MaxBinaryLength(n, remaining) == Min(Log2Floor(n), remaining)

\* mutant: the loop that fills move_bits never breaks
MapSizeNoBreak(n, w) == n

\* number of leading ordinals that enter move_bits before the loop breaks
MapSize(n, w) ==
    LET long == { i \in 0..(n - 1) : Len(to_binary_string(i, w)) > w }
    IN  IF long = {} THEN n ELSE CHOOSE i \in long : \A j \in long : i <= j

\* move_bits, in insertion order: (uci, binary) for the ordinals before the break
MoveBits(legal_moves, w) ==
    [i \in 1..MapSize(Len(legal_moves), w) |->
        [uci |-> legal_moves[i], bin |-> to_binary_string(i - 1, w)]]

\* mutant: the pool holds the cursor's byte only
FileChunkPoolOneByte(bytes, bit_index) ==
    LET closest_byte_index == bit_index \div 8
        one == PySlice(bytes, closest_byte_index, closest_byte_index + 1)
    IN  Flatten([i \in 1..Len(one) |-> to_binary_string(one[i], 8)])

\* file_chunk_pool: the bits of up to two bytes from the cursor's byte on
FileChunkPool(bytes, bit_index) ==
    LET closest_byte_index == bit_index \div 8
        two == PySlice(bytes, closest_byte_index, closest_byte_index + 2)
    IN  Flatten([i \in 1..Len(two) |-> to_binary_string(two[i], 8)])

\* the slice is taken at the cursor itself, not at its offset in the pool
NextFileChunkAbsolute(bytes, bit_index, w) ==
    PySlice(FileChunkPool(bytes, bit_index), bit_index, bit_index + w)

\* next_file_chunk
NextFileChunk(bytes, bit_index, w) ==
    PySlice(FileChunkPool(bytes, bit_index), bit_index % 8, (bit_index % 8) + w)

\* the first map entry (1-based) whose binary equals the chunk, 0 when none does
FirstMatch(move_bits, chunk) ==
    LET hits == { i \in 1..Len(move_bits) : move_bits[i].bin = chunk }
    IN  IF hits = {} THEN 0 ELSE CHOOSE i \in hits : \A j \in hits : i <= j

\* the number of legal moves is not looked at
IsTerminalNoMoves(b) ==
    \/ is_insufficient_material(b)
    \/ can_claim_draw(b)

\* the terminal-state test on the position after the move
IsTerminal(b) ==
    \/ Len(LegalMoves(b)) <= 1
    \/ is_insufficient_material(b)
    \/ can_claim_draw(b)

\* mutant: Parts are numbered from 0
MakePartZeroBased(path, closed, stack) ==
    [FileType   |-> FileExtension(path),
     FileName   |-> Basename(path),
     PartNumber |-> ToString(Len(closed)),
     moves      |-> stack]

\* the game record appended when a Part is closed
MakePart(path, closed, stack) ==
    [FileType   |-> FileExtension(path),
     FileName   |-> Basename(path),
     PartNumber |-> ToString(Len(closed) + 1),
     moves      |-> stack]

\* mutant: the board is not reset when a Part is closed
ResetBoardKeep(b) == b

\* chess_board.reset() when a Part is closed
ResetBoard(b) == InitialPos

\* a list that outlives the call
NewPartsKeep(old) == old

\* line 41: output_pgns = []
NewParts(old) == << >>

\* lines 22-44: read the file, refuse an empty one, set up the loop
EncodeStart ==
    /\ pc = "start"
    /\ IF IsEmptyFile(file_bytes)
       THEN /\ pc' = "error"
            /\ result' = [kind |-> "ValueError", msg |-> "Error reading file: File is empty"]
            /\ UNCHANGED <<file_bit_index, chess_board, move_stack, moves_in_current_game,
                           output_pgns, stack_chunks, part_chunks>>
       ELSE /\ pc' = "loop"
            /\ result' = NoResult
            /\ output_pgns' = NewParts(output_pgns)
            /\ file_bit_index' = 0
            /\ chess_board' = InitialPos
            /\ move_stack' = << >>
            /\ moves_in_current_game' = 0
            /\ stack_chunks' = << >>
            /\ part_chunks' = << >>
    /\ UNCHANGED <<file_path, file_bytes>>
    /\ UNCHANGED <<dec_vars, other_vars>>

\* lines 46-59: an iteration that closes a game at the move cap
EncodeCapClose ==
    /\ pc = "loop"
    /\ CapReached(moves_in_current_game)
    /\ output_pgns' = Append(output_pgns, MakePart(file_path, output_pgns, move_stack))
    /\ part_chunks' = Append(part_chunks, stack_chunks)
    /\ chess_board' = ResetBoard(chess_board)
    /\ move_stack' = << >>
    /\ stack_chunks' = << >>
    /\ moves_in_current_game' = 0
    /\ UNCHANGED <<file_path, file_bytes, pc, file_bit_index, result>>
    /\ UNCHANGED <<dec_vars, other_vars>>

\* lines 46-48, 61-115: an iteration that reads a chunk and pushes its move
EncodeStep ==
    /\ pc = "loop"
    /\ ~CapReached(moves_in_current_game)
    /\ LET legal_moves == LegalMoves(chess_board)
       IN  IF Len(legal_moves) = 0
           THEN \* log2(0) raises
                /\ pc' = "error"
                /\ result' = [kind |-> "ValueError", msg |-> "math domain error"]
                /\ UNCHANGED <<file_bit_index, chess_board, move_stack, moves_in_current_game,
                               output_pgns, stack_chunks, part_chunks>>
           ELSE LET max_binary_length ==
                        MaxBinaryLength(Len(legal_moves), file_bits_count - file_bit_index)
                    move_bits == MoveBits(legal_moves, max_binary_length)
                    next_file_chunk == NextFileChunk(file_bytes, file_bit_index, max_binary_length)
                    hit == FirstMatch(move_bits, next_file_chunk)
                    board1 == IF hit = 0 THEN chess_board
                              ELSE PushUci(chess_board, move_bits[hit].uci)
                    stack1 == IF hit = 0 THEN move_stack
                              ELSE Append(move_stack, move_bits[hit].uci)
                    chunks1 == IF hit = 0 THEN stack_chunks
                               ELSE Append(stack_chunks, next_file_chunk)
                    count1 == IF hit = 0 THEN moves_in_current_game
                              ELSE moves_in_current_game + 1
                    index1 == file_bit_index + max_binary_length
                    eof_reached == index1 >= file_bits_count
                IN  /\ file_bit_index' = index1
                    /\ IF IsTerminal(board1) \/ eof_reached
                       THEN /\ output_pgns' =
                                 Append(output_pgns, MakePart(file_path, output_pgns, stack1))
                            /\ part_chunks' = Append(part_chunks, chunks1)
                            /\ chess_board' = ResetBoard(chess_board)
                            /\ move_stack' = << >>
                            /\ stack_chunks' = << >>
                            /\ moves_in_current_game' = 0
                       ELSE /\ chess_board' = board1
                            /\ move_stack' = stack1
                            /\ stack_chunks' = chunks1
                            /\ moves_in_current_game' = count1
                            /\ UNCHANGED <<output_pgns, part_chunks>>
                    /\ pc' = IF eof_reached THEN "return" ELSE "loop"
                    /\ result' = result
    /\ UNCHANGED <<file_path, file_bytes>>
    /\ UNCHANGED <<dec_vars, other_vars>>

\* lines 117-124: build the returned dict
EncodeReturn ==
    /\ pc = "return"
    /\ pc' = "done"
    /\ result' = [kind |-> "dict",
                  pgn |-> output_pgns,
                  file_name |-> Basename(file_path),
                  game_count |-> Len(output_pgns),
                  move_counts |-> [k \in 1..Len(output_pgns) |-> Len(output_pgns[k].moves)]]
    /\ UNCHANGED <<file_path, file_bytes, file_bit_index, chess_board, move_stack,
                   moves_in_current_game, output_pgns, stack_chunks, part_chunks>>
    /\ UNCHANGED <<dec_vars, other_vars>>

\* app.py line 96, reached a second time: the same file is uploaded and encoded again
EncodeAgain ==
    /\ pc = "done"
    /\ first_result = NoResult
    /\ pc' = "start"
    /\ first_result' = result
    /\ UNCHANGED <<file_path, file_bytes, file_bit_index, chess_board, move_stack,
                   moves_in_current_game, output_pgns, result, stack_chunks, part_chunks>>
    /\ UNCHANGED <<dec_vars, win, app_vars>>

\* lines 74-83 on their own: the window at a cursor and a width of the caller's choosing
ReadWindow ==
    /\ pc = "idle"
    /\ dpc = "idle"
    /\ win = NoResult
    /\ \E cursor \in 0..file_bits_count, width \in 0..MaxWidth :
          win' = [kind |-> "window", cursor |-> cursor, width |-> width,
                  chunk |-> NextFileChunk(file_bytes, cursor, width)]
    /\ UNCHANGED <<enc_vars, dec_vars, first_result, app_vars>>

(***************************************************************************)
(* decode                                                                  *)
(***************************************************************************)
Range(list) == { list[i] : i \in 1..Len(list) }

\* bin(legal_move_ucis.index(move_uci))[2:]
MoveIndexBinary(legal_move_ucis, move_uci) == Bin(IndexOf(legal_move_ucis, move_uci))

\* mutant: the width is rounded up instead of down
DecodeWidthCeil(legal_move_ucis) == Log2Floor(Len(legal_move_ucis)) + 1

\* int(log2(len(legal_move_ucis)))
DecodeWidth(legal_move_ucis) == Log2Floor(Len(legal_move_ucis))

\* mutant: the padding to the position's width is forgotten
MoveBinaryNoPad(legal_move_ucis, move_uci) == MoveIndexBinary(legal_move_ucis, move_uci)

\* the ordinal is cut to the low bits that fit the position's width
MoveBinaryExact(legal_move_ucis, move_uci) ==
    LET b == ZFill(MoveIndexBinary(legal_move_ucis, move_uci), DecodeWidth(legal_move_ucis))
    IN  SubSeq(b, Len(b) - DecodeWidth(legal_move_ucis) + 1, Len(b))

\* move_index_binary.zfill(max_binary_length)
MoveBinary(legal_move_ucis, move_uci) ==
    ZFill(MoveIndexBinary(legal_move_ucis, move_uci), DecodeWidth(legal_move_ucis))

\* the bytes the "while len(output_data) >= 8" loop writes
WholeBytes(data) ==
    [i \in 1..(Len(data) \div 8) |-> BitVal(SubSeq(data, 8 * (i - 1) + 1, 8 * i))]

\* what that loop leaves in output_data
LeftOver(data) == SubSeq(data, 8 * (Len(data) \div 8) + 1, Len(data))

\* mutant: one board is used for all games
GameBoardKeep(b) == b

\* board = chess.Board() at the start of every game
GameBoard(b) == InitialPos

\* mutant: a move that is not legal is skipped
CorruptStepSkip(mi) == [dpc |-> "games", move_i |-> mi + 1]

\* the failed lookup of a move that is not legal: the exception leaves both loops
CorruptStep(mi) == [dpc |-> "error", move_i |-> mi]

\* every game starts with an empty accumulator
GameDataFresh(data) == << >>

\* the accumulator a game starts with
GameData(data) == data

\* the current game (if any) has no move left
GameExhausted == IF game_i = 0 THEN TRUE ELSE move_i = Len(moves_list[game_i])

\* lines 267-269: the next game of moves_list starts on a new board
DecodeBeginGame ==
    /\ dpc = "games"
    /\ game_i < Len(moves_list)
    /\ GameExhausted
    /\ game_i' = game_i + 1
    /\ move_i' = 0
    /\ board' = GameBoard(board)
    /\ output_data' = GameData(output_data)
    /\ UNCHANGED <<moves_list, dpc, out_file, dresult>>
    /\ UNCHANGED <<enc_vars, other_vars>>

\* lines 271-295: one move of the current game
DecodeMove ==
    /\ dpc = "games"
    /\ game_i >= 1
    /\ move_i < Len(moves_list[game_i])
    /\ LET move_uci == moves_list[game_i][move_i + 1]
           legal_move_ucis == LegalMoves(board)
       IN  IF move_uci \notin Range(legal_move_ucis)
           THEN \* list.index raises; line 311 turns it into ValueError
                /\ dpc' = CorruptStep(move_i).dpc
                /\ move_i' = CorruptStep(move_i).move_i
                /\ dresult' = [kind |-> "ValueError", cause |-> "CorruptData"]
                /\ UNCHANGED <<board, output_data, out_file>>
           ELSE LET data1 == output_data \o MoveBinary(legal_move_ucis, move_uci)
                IN  /\ board' = PushUci(board, move_uci)
                    /\ out_file' = out_file \o WholeBytes(data1)
                    /\ output_data' = LeftOver(data1)
                    /\ move_i' = move_i + 1
                    /\ UNCHANGED <<dpc, dresult>>
    /\ UNCHANGED <<moves_list, game_i>>
    /\ UNCHANGED <<enc_vars, other_vars>>

\* lines 297-309: fetch the first game's headers and return the file type
DecodeFetch ==
    /\ dpc = "games"
    /\ game_i = Len(moves_list)
    /\ GameExhausted
    /\ \E status_code \in {200, 404}, file_type \in FileTypes :
          IF status_code # 200
          THEN /\ dpc' = "error"
               /\ dresult' = [kind |-> "ValueError", cause |-> "MetadataFetch"]
          ELSE /\ dpc' = "done"
               /\ dresult' = [kind |-> "file_extension", value |-> file_type]
    /\ UNCHANGED <<moves_list, game_i, move_i, board, output_data, out_file>>
    /\ UNCHANGED <<enc_vars, other_vars>>

\* app.retrieve_file, lines 156-168: decode is called on the games' move lists,
\* here the ones encode produced, into an empty temporary file
DecodeEncoded ==
    /\ pc = "done"
    /\ dpc = "idle"
    /\ moves_list' = [k \in 1..Len(output_pgns) |-> output_pgns[k].moves]
    /\ dpc' = "games"
    /\ out_file' = << >>
    /\ output_data' = << >>
    /\ UNCHANGED <<game_i, move_i, board, dresult>>
    /\ UNCHANGED <<enc_vars, other_vars>>

(***************************************************************************)
(* The web application: start_game, the move threads, retrieve             *)
(***************************************************************************)
\* the metadata records a successful start_game run appends, in order
NewMetadata(first_id, file_name, count) ==
    [i \in 1..count |-> [game_id |-> first_id + i - 1, file_name |-> file_name, part |-> i]]

\* start_game: one game per PGN game is created and recorded, then one thread
\* per game is started and the ids are returned; create_bot_game may fail at
\* game fail_at (0: never), and then ValueError is raised
StartGame ==
    \E file_name \in FileNames, games \in AppPgns :
      \E fail_at \in 0..Len(games) :
        LET count == IF fail_at = 0 THEN Len(games) ELSE fail_at - 1
            first_id == Len(lichess) + 1
        IN  /\ Len(lichess) + Len(games) <= MaxGames
            /\ metadata' = metadata \o NewMetadata(first_id, file_name, count)
            /\ lichess' = lichess \o [i \in 1..count |-> [moves |-> << >>, resigns |-> 0]]
            /\ threads' = threads \o
                  [i \in 1..count |->
                      [moves_list |-> games[i],
                       move_index |-> 0,
                       tried      |-> << >>,
                       state      |-> IF fail_at = 0 THEN "run" ELSE "none"]]
            /\ started' = [kind      |-> IF fail_at = 0 THEN "ids" ELSE "ValueError",
                           file_name |-> file_name,
                           games     |-> games,
                           game_ids  |-> [i \in 1..count |-> first_id + i - 1]]
            /\ meta_file' = IF count > 0 THEN "whole" ELSE meta_file
            /\ UNCHANGED <<retrieved, first_result, win, stores, found>>
            /\ UNCHANGED <<enc_vars, dec_vars>>

\* the tokens are always tried in the same order
BotTokensFixed(move_index) == <<"BOT1", "BOT2">>

\* lines 159-167: the tokens in the order they are tried, side to move first
BotTokens(move_index) ==
    IF move_index % 2 = 0 THEN <<"BOT1", "BOT2">> ELSE <<"BOT2", "BOT1">>

\* execute_moves_for_game, one POST of the current move: with the next token
\* not yet tried; a 200 goes on to the next move, anything else (another
\* status, an exception) to the next token; when both tokens failed the thread
\* returns
ThreadMove ==
    \E g \in 1..Len(threads), status_code \in {200, 400} :
        LET t == threads[g]
            token == BotTokens(t.move_index)[Len(t.tried) + 1]
        IN  /\ t.state = "run"
            /\ t.move_index < Len(t.moves_list)
            /\ IF status_code = 200
               THEN /\ lichess' = [lichess EXCEPT ![g].moves =
                                       Append(@, t.moves_list[t.move_index + 1])]
                    /\ threads' = [threads EXCEPT ![g].move_index = @ + 1,
                                                  ![g].tried = << >>]
               ELSE /\ threads' = [threads EXCEPT
                                       ![g].tried = Append(@, token),
                                       ![g].state = IF Len(t.tried) = 1 THEN "failed" ELSE @]
                    /\ UNCHANGED lichess
            /\ UNCHANGED <<metadata, retrieved, started, first_result, win, meta_vars>>
            /\ UNCHANGED <<enc_vars, dec_vars>>

\* execute_moves_for_game, after the last move: the resignation is posted
ThreadResign ==
    \E g \in 1..Len(threads) :
        LET t == threads[g]
        IN  /\ t.state = "run"
            /\ t.move_index = Len(t.moves_list)
            /\ lichess' = [lichess EXCEPT ![g].resigns = @ + 1]
            /\ threads' = [threads EXCEPT ![g].state = "done"]
            /\ UNCHANGED <<metadata, retrieved, started, first_result, win, meta_vars>>
            /\ UNCHANGED <<enc_vars, dec_vars>>

\* find_games_by_filename
find_games_by_filename(data, file_name) ==
    SelectSeq(data, LAMBDA m : m.file_name = file_name)

\* store_game_metadata, line 243: open(..., 'r+'); a missing file raises
\* FileNotFoundError, which line 249 catches
StoreOpen ==
    \E c \in 1..Len(stores) :
        /\ stores[c].pc = "start"
        /\ stores' = [stores EXCEPT ![c].pc = IF meta_file = "missing" THEN "create" ELSE "opened"]
        /\ UNCHANGED <<metadata, meta_file, found>>
        /\ UNCHANGED <<lichess, threads, retrieved, started, first_result, win>>
        /\ UNCHANGED <<enc_vars, dec_vars>>

\* what json.load hands the call: data['games'] of a whole file
StoreLoad(games) == games

\* line 244: data = json.load(f); a file cut to length 0 raises JSONDecodeError,
\* which nothing in the function catches
StoreRead ==
    \E c \in 1..Len(stores) :
        /\ stores[c].pc = "opened"
        /\ stores' = IF meta_file = "whole"
                     THEN [stores EXCEPT ![c].pc = "loaded", ![c].data = StoreLoad(metadata)]
                     ELSE [stores EXCEPT ![c].pc = "raised"]
        /\ UNCHANGED <<metadata, meta_file, found>>
        /\ UNCHANGED <<lichess, threads, retrieved, started, first_result, win>>
        /\ UNCHANGED <<enc_vars, dec_vars>>

\* lines 245-247: the record is appended to the loaded list, the file is cut
StoreTruncate ==
    \E c \in 1..Len(stores) :
        /\ stores[c].pc = "loaded"
        /\ stores' = [stores EXCEPT ![c].pc = "cut", ![c].data = Append(@, stores[c].rec)]
        /\ meta_file' = "empty"
        /\ metadata' = << >>
        /\ UNCHANGED found
        /\ UNCHANGED <<lichess, threads, retrieved, started, first_result, win>>
        /\ UNCHANGED <<enc_vars, dec_vars>>

\* line 248 and the end of the with block: the list is written from offset 0
StoreDump ==
    \E c \in 1..Len(stores) :
        /\ stores[c].pc = "cut"
        /\ stores' = [stores EXCEPT ![c].pc = "done"]
        /\ meta_file' = "whole"
        /\ metadata' = stores[c].data
        /\ UNCHANGED found
        /\ UNCHANGED <<lichess, threads, retrieved, started, first_result, win>>
        /\ UNCHANGED <<enc_vars, dec_vars>>

\* line 250: open(..., 'w') creates the file, or cuts the one made meanwhile
StoreCreate ==
    \E c \in 1..Len(stores) :
        /\ stores[c].pc = "create"
        /\ stores' = [stores EXCEPT ![c].pc = "cut", ![c].data = <<stores[c].rec>>]
        /\ meta_file' = "empty"
        /\ metadata' = << >>
        /\ UNCHANGED found
        /\ UNCHANGED <<lichess, threads, retrieved, started, first_result, win>>
        /\ UNCHANGED <<enc_vars, dec_vars>>

\* find_games_by_filename called while stores are in progress: a missing file
\* gives [], a file cut to length 0 makes json.load raise
FindGames ==
    \E file_name \in FileNames :
        /\ found' = CASE meta_file = "missing" -> [kind |-> "list", games |-> << >>]
                      [] meta_file = "whole" ->
                            [kind |-> "list", games |-> find_games_by_filename(metadata, file_name)]
                      [] OTHER -> [kind |-> "JSONDecodeError", games |-> << >>]
        /\ UNCHANGED <<metadata, meta_file, stores>>
        /\ UNCHANGED <<lichess, threads, retrieved, started, first_result, win>>
        /\ UNCHANGED <<enc_vars, dec_vars>>

\* games.sort(key=lambda x: x.get('part', 0)): a stable sort on the part number
SortByPart(games) ==
    Flatten([part \in 1..Len(games) |-> SelectSeq(games, LAMBDA m : m.part = part)])

\* get_game_moves: the moves played so far in the game
get_game_moves(game_id) == lichess[game_id].moves

RECURSIVE DecodeBits(_, _)
\* the bits decode appends for the moves of one game replayed from position b
DecodeBits(move_list, b) ==
    IF move_list = << >> THEN << >>
    ELSE MoveBinary(LegalMoves(b), Head(move_list))
             \o DecodeBits(Tail(move_list), PushUci(b, Head(move_list)))

\* the bytes decode writes for the move lists of the games, all moves legal
DecodeFile(all_moves) ==
    WholeBytes(Flatten([k \in 1..Len(all_moves) |-> DecodeBits(all_moves[k], GameBoard(0))]))

RetrieveError(code) ==
    [kind |-> "error", code |-> code, game_ids |-> << >>, parts |-> << >>,
     all_moves |-> << >>, content |-> << >>]

\* retrieve_file: find the games of the file, sort them, fetch their moves, decode
Retrieve ==
    \E file_name \in FileNames, status_code \in {200, 404} :
        LET games == SortByPart(find_games_by_filename(metadata, file_name))
            all_moves == [k \in 1..Len(games) |-> get_game_moves(games[k].game_id)]
        IN  /\ retrieved' =
                  IF games = << >> THEN RetrieveError(404)
                  ELSE IF \E k \in 1..Len(games) : all_moves[k] = << >>
                       THEN RetrieveError(500)
                  ELSE IF status_code # 200
                       THEN [RetrieveError(500) EXCEPT
                                !.game_ids = [k \in 1..Len(games) |-> games[k].game_id],
                                !.parts = [k \in 1..Len(games) |-> games[k].part],
                                !.all_moves = all_moves]
                  ELSE [kind |-> "success", code |-> 200,
                        game_ids |-> [k \in 1..Len(games) |-> games[k].game_id],
                        parts |-> [k \in 1..Len(games) |-> games[k].part],
                        all_moves |-> all_moves,
                        content |-> DecodeFile(all_moves)]
            /\ UNCHANGED <<metadata, lichess, threads, started, first_result, win, meta_vars>>
            /\ UNCHANGED <<enc_vars, dec_vars>>

(***************************************************************************)
(* Specifications                                                          *)
(***************************************************************************)
DecIdle ==
    /\ game_i = 0
    /\ move_i = 0
    /\ board = InitialPos
    /\ output_data = << >>
    /\ out_file = << >>
    /\ dresult = NoResult

EncFresh ==
    /\ file_bit_index = 0
    /\ chess_board = InitialPos
    /\ move_stack = << >>
    /\ moves_in_current_game = 0
    /\ output_pgns = << >>
    /\ result = NoResult
    /\ stack_chunks = << >>
    /\ part_chunks = << >>

AppIdle ==
    /\ metadata = << >>
    /\ lichess = << >>
    /\ threads = << >>
    /\ retrieved = NoResult
    /\ started = NoResult
    /\ meta_file = "missing"
    /\ stores = << >>
    /\ found = NoResult

OtherIdle ==
    /\ first_result = NoResult
    /\ win = NoResult
    /\ AppIdle

\* encode is called on a file; decode is later called on what it produced
Init ==
    /\ file_path \in FilePaths
    /\ file_bytes \in Buffers
    /\ pc = "start"
    /\ EncFresh
    /\ moves_list = << >>
    /\ dpc = "idle"
    /\ DecIdle
    /\ OtherIdle

Next ==
    \/ EncodeStart
    \/ EncodeCapClose
    \/ EncodeStep
    \/ EncodeReturn
    \/ DecodeEncoded
    \/ DecodeBeginGame
    \/ DecodeMove
    \/ DecodeFetch

Spec == Init /\ [][Next]_vars

\* decode is called on a move list of the caller's choosing
InitDecode ==
    /\ file_path \in FilePaths
    /\ file_bytes = << >>
    /\ pc = "idle"
    /\ EncFresh
    /\ moves_list \in MoveLists
    /\ dpc = "games"
    /\ DecIdle
    /\ OtherIdle

NextDecode ==
    \/ DecodeBeginGame
    \/ DecodeMove
    \/ DecodeFetch

SpecDecode == InitDecode /\ [][NextDecode]_vars

\* the window computation alone, on a file, cursor and width of the caller's choosing
InitWindow ==
    /\ file_path \in FilePaths
    /\ file_bytes \in WindowBuffers
    /\ pc = "idle"
    /\ EncFresh
    /\ moves_list = << >>
    /\ dpc = "idle"
    /\ DecIdle
    /\ OtherIdle

NextWindow == ReadWindow

SpecWindow == InitWindow /\ [][NextWindow]_vars

\* the web application: files are started as games, moves are played, files are retrieved
InitApp ==
    /\ file_path \in FilePaths
    /\ file_bytes = << >>
    /\ pc = "idle"
    /\ EncFresh
    /\ moves_list = << >>
    /\ dpc = "idle"
    /\ DecIdle
    /\ OtherIdle

NextApp ==
    \/ StartGame
    \/ ThreadMove
    \/ ThreadResign
    \/ Retrieve

SpecApp == InitApp /\ [][NextApp]_vars

\* one game has been started by start_game; its thread runs
InitThread ==
    /\ file_path \in FilePaths
    /\ file_bytes = << >>
    /\ pc = "idle"
    /\ EncFresh
    /\ moves_list = << >>
    /\ dpc = "idle"
    /\ DecIdle
    /\ first_result = NoResult
    /\ win = NoResult
    /\ metadata = NewMetadata(1, "notes.TXT", 1)
    /\ lichess = << [moves |-> << >>, resigns |-> 0] >>
    /\ \E game \in ThreadGames :
          /\ threads = << [moves_list |-> game, move_index |-> 0, tried |-> << >>,
                           state |-> "run"] >>
          /\ started = [kind |-> "ids", file_name |-> "notes.TXT", games |-> <<game>>,
                        game_ids |-> <<1>>]
    /\ retrieved = NoResult
    /\ meta_file = "whole"
    /\ stores = << >>
    /\ found = NoResult

NextThread ==
    \/ ThreadMove
    \/ ThreadResign

SpecThread == InitThread /\ [][NextThread]_vars

\* start_game requests run concurrently; each has created its first game and
\* is about to store its record
InitMeta ==
    /\ file_path \in FilePaths
    /\ file_bytes = << >>
    /\ pc = "idle"
    /\ EncFresh
    /\ moves_list = << >>
    /\ dpc = "idle"
    /\ DecIdle
    /\ first_result = NoResult
    /\ win = NoResult
    /\ metadata = << >>
    /\ lichess = << >>
    /\ threads = << >>
    /\ retrieved = NoResult
    /\ started = NoResult
    /\ meta_file \in {"missing", "whole"}
    /\ \E names \in [1..MaxCalls -> FileNames] :
          stores = [c \in 1..MaxCalls |->
                       [pc |-> "start", data |-> << >>,
                        rec |-> [game_id |-> c, file_name |-> names[c], part |-> 1]]]
    /\ found = NoResult

NextMeta ==
    \/ StoreOpen
    \/ StoreRead
    \/ StoreTruncate
    \/ StoreDump
    \/ StoreCreate
    \/ FindGames

SpecMeta == InitMeta /\ [][NextMeta]_vars

\* encode is called twice on the same file
NextTwice ==
    \/ EncodeStart
    \/ EncodeCapClose
    \/ EncodeStep
    \/ EncodeReturn
    \/ EncodeAgain

SpecTwice == Init /\ [][NextTwice]_vars

(***************************************************************************)
(* Reference definitions used by the properties                            *)
(***************************************************************************)
\* the 8 bits of a byte, high bit first
BitsOfByte(b) == [j \in 1..8 |-> (b \div Pow2(8 - j)) % 2]

\* the flattened bits of a byte buffer
AllBits(bytes) == Flatten([i \in 1..Len(bytes) |-> BitsOfByte(bytes[i])])

RECURSIVE Replay(_, _)
\* the position after playing moves (all legal) from position p
Replay(moves, p) ==
    IF moves = << >> \/ p \notin Positions THEN p
    ELSE Replay(Tail(moves), PushUci(p, Head(moves)))

RECURSIVE Replayable(_, _)
\* every move of moves is legal at its step when played from position p
Replayable(moves, p) ==
    IF moves = << >> THEN TRUE
    ELSE /\ Head(moves) \in Range(LegalMoves(p))
         /\ Replayable(Tail(moves), PushUci(p, Head(moves)))

RECURSIVE WidthsFull(_, _, _)
\* every window of chunks has the full width floor(log2(legal moves)) of its position
WidthsFull(moves, chunks, p) ==
    IF moves = << >> THEN TRUE
    ELSE /\ Len(Head(chunks)) = Log2Floor(Len(LegalMoves(p)))
         /\ WidthsFull(Tail(moves), Tail(chunks), PushUci(p, Head(moves)))

\* no encoder step was clamped
NoStepClamped ==
    \A k \in 1..Len(output_pgns) :
        WidthsFull(output_pgns[k].moves, part_chunks[k], InitialPos)

\* decode has replayed every move of every game of moves_list
AllGamesReplayed ==
    /\ dpc # "idle"
    /\ game_i = Len(moves_list)
    /\ GameExhausted

(***************************************************************************)
(* C1: when no encoder step is clamped, decoding the Parts of encode(b)    *)
(* in part order writes exactly the bytes of b.                            *)
(***************************************************************************)
RoundTripUnclamped ==
    (pc = "done" /\ AllGamesReplayed /\ NoStepClamped) =>
        (out_file = file_bytes /\ output_data = << >>)

RoundTripWitness ==
    /\ pc = "done"
    /\ AllGamesReplayed
    /\ NoStepClamped
    /\ Len(output_pgns) >= 2
    /\ Len(file_bytes) >= 2
    /\ out_file = file_bytes

(***************************************************************************)
(* C2: at every iteration of encode the windows that selected the pushed   *)
(* moves, concatenated in Part order then move order (open Part last), are *)
(* the first file_bit_index bits of the input; at termination they are all *)
(* 8 * len(buffer) bits.                                                   *)
(***************************************************************************)
ConsumedBits == Flatten(Flatten(part_chunks) \o stack_chunks)

ConsumedIsPrefix ==
    (pc \in {"loop", "return", "done"}) =>
        /\ file_bit_index <= file_bits_count
        /\ ConsumedBits = SubSeq(AllBits(file_bytes), 1, file_bit_index)
        /\ Len(stack_chunks) = Len(move_stack)
        /\ \A k \in 1..Len(output_pgns) : Len(part_chunks[k]) = Len(output_pgns[k].moves)
        /\ (pc \in {"return", "done"} =>
               /\ file_bit_index = 8 * Len(file_bytes)
               /\ ConsumedBits = AllBits(file_bytes))

ConsumedWitness ==
    /\ pc = "loop"
    /\ Len(part_chunks) >= 1
    /\ Len(stack_chunks) >= 1
    /\ file_bit_index % 8 = 7
    /\ file_bit_index > 8
    /\ ConsumedBits = SubSeq(AllBits(file_bytes), 1, file_bit_index)

(***************************************************************************)
(* C3: every Part of encode replays from the initial position with every   *)
(* move legal at its step, so decode never fails with CorruptData on the   *)
(* output of encode.                                                       *)
(***************************************************************************)
PartsReplayable ==
    /\ pc = "return" => \A k \in 1..Len(output_pgns) : Replayable(output_pgns[k].moves, InitialPos)
    /\ ~(dpc = "error" /\ dresult.cause = "CorruptData")

PartsReplayableWitness ==
    /\ dpc = "done"
    /\ Len(moves_list) >= 3
    /\ \E k \in 1..Len(moves_list) : Len(moves_list[k]) = MAX_MOVES_PER_GAME
    /\ \A k \in 1..Len(output_pgns) : Replayable(output_pgns[k].moves, InitialPos)

(***************************************************************************)
(* C4: when the final move of encode was clamped, decode reads it with the *)
(* full width of its position.  The claim as stated says the decoded bytes *)
(* then always differ from the input (TailAlwaysCorrupted); they differ    *)
(* exactly when the clamped window holds a 1 bit (TailCorruptedIffOne).    *)
(***************************************************************************)
LastMoves == output_pgns[Len(output_pgns)].moves

\* the position the final move of the final Part was chosen at
FinalPos == Replay(SubSeq(LastMoves, 1, Len(LastMoves) - 1), InitialPos)

\* the window that selected the final move
FinalChunk == part_chunks[Len(part_chunks)][Len(LastMoves)]

FinalMoveClamped ==
    /\ Len(output_pgns) >= 1
    /\ Len(LastMoves) >= 1
    /\ Len(FinalChunk) < Log2Floor(Len(LegalMoves(FinalPos)))

TailAlwaysCorrupted ==
    (pc = "done" /\ AllGamesReplayed /\ FinalMoveClamped) => out_file # file_bytes

TailCorruptedIffOne ==
    (pc = "done" /\ AllGamesReplayed /\ FinalMoveClamped) =>
        /\ Len(MoveBinary(LegalMoves(FinalPos), LastMoves[Len(LastMoves)])) > Len(FinalChunk)
        /\ (out_file # file_bytes) <=> (\E i \in 1..Len(FinalChunk) : FinalChunk[i] = 1)

TailCorruptedWitness ==
    /\ pc = "done"
    /\ AllGamesReplayed
    /\ FinalMoveClamped
    /\ \E i \in 1..Len(FinalChunk) : FinalChunk[i] = 1
    /\ out_file # file_bytes
    /\ Len(out_file) = Len(file_bytes)

(***************************************************************************)
(* C5: decode starts every Part from a new board.  The claim as stated     *)
(* says the whole decode equals the per-Part decodes concatenated byte by  *)
(* byte (DecodeIsPerPartBytes); the accumulator is carried over, so what   *)
(* holds is that the whole decode packs the concatenation of the per-Part  *)
(* bit strings (DecodeIsPerPartBits).                                      *)
(***************************************************************************)
RECURSIVE PartBits(_, _)
\* the bits a Part contributes when replayed on its own from position p
PartBits(moves, p) ==
    IF moves = << >> THEN << >>
    ELSE LET legal == LegalMoves(p)
             i == IndexOf(legal, Head(moves))
             w == Log2Floor(Len(legal))
         IN  ZFill(Bin(i), w) \o PartBits(Tail(moves), PushUci(p, Head(moves)))

\* the bytes written when a Part is decoded on its own into an empty file
SoloBytes(moves) == WholeBytes(PartBits(moves, InitialPos))

AllGamesLegal == \A k \in 1..Len(moves_list) : Replayable(moves_list[k], InitialPos)

DecodeIsPerPartBytes ==
    (AllGamesReplayed /\ AllGamesLegal) =>
        out_file = Flatten([k \in 1..Len(moves_list) |-> SoloBytes(moves_list[k])])

DecodeIsPerPartBits ==
    (AllGamesReplayed /\ AllGamesLegal) =>
        LET bits == Flatten([k \in 1..Len(moves_list) |-> PartBits(moves_list[k], InitialPos)])
        IN  /\ out_file = WholeBytes(bits)
            /\ output_data = LeftOver(bits)

DecodePerPartWitness ==
    /\ AllGamesReplayed
    /\ Len(moves_list) = 2
    /\ Len(moves_list[1]) >= 2
    /\ Len(moves_list[2]) >= 2
    /\ Len(out_file) = 1
    /\ SoloBytes(moves_list[1]) = << >>
    /\ SoloBytes(moves_list[2]) = << >>

(***************************************************************************)
(* C6: decode of a move list holding a move that is not legal at its step  *)
(* (a move after a position without legal moves included) ends in the      *)
(* CorruptData ValueError and never completes.                             *)
(***************************************************************************)
HasIllegalMove == \E k \in 1..Len(moves_list) : ~Replayable(moves_list[k], InitialPos)

CorruptDecodeFails ==
    HasIllegalMove =>
        /\ dpc # "done"
        /\ ~AllGamesReplayed
        /\ dpc = "error" => dresult = [kind |-> "ValueError", cause |-> "CorruptData"]

CorruptDecodeWitness ==
    /\ HasIllegalMove
    /\ dpc = "error"
    /\ game_i = 2
    /\ move_i = 2
    /\ output_data # << >>
    /\ Len(LegalMoves(board)) = 0

(***************************************************************************)
(* C7: encode of an empty file fails with ValueError before the loop: no   *)
(* position is advanced and no Part is produced.                           *)
(***************************************************************************)
EmptyInputFails ==
    (pc # "idle" /\ Len(file_bytes) = 0) =>
        /\ pc \in {"start", "error"}
        /\ pc = "error" => result.kind = "ValueError"
        /\ pc = "start" => ENABLED EncodeStart
        /\ chess_board = InitialPos
        /\ move_stack = << >>
        /\ file_bit_index = 0
        /\ output_pgns = << >>
        /\ dpc = "idle"

EmptyInputWitness ==
    /\ Len(file_bytes) = 0
    /\ pc = "error"
    /\ result.kind = "ValueError"

(***************************************************************************)
(* C8: a Part is closed only when it holds 100 moves, or the position      *)
(* after its last move has at most one legal move, insufficient material   *)
(* or a claimable draw, or the cursor is at the end of the input; and a    *)
(* run that pushed more than 100 moves returns game_count > 1.             *)
(***************************************************************************)
RECURSIVE SumLen(_)
SumLen(ss) == IF ss = << >> THEN 0 ELSE Len(Head(ss)) + SumLen(Tail(ss))

CloseCondition ==
    LET part == output_pgns'[Len(output_pgns')]
        after == Replay(part.moves, InitialPos)
    IN  \/ /\ moves_in_current_game = 100
           /\ part.moves = move_stack
        \/ Len(LegalMoves(after)) <= 1
        \/ is_insufficient_material(after)
        \/ can_claim_draw(after)
        \/ file_bit_index' >= 8 * Len(file_bytes)

ClosedOnlyAtCloseStates ==
    /\ [][output_pgns' # output_pgns =>
            /\ Len(output_pgns') = Len(output_pgns) + 1
            /\ SubSeq(output_pgns', 1, Len(output_pgns)) = output_pgns
            /\ CloseCondition]_vars
    /\ []((pc = "done" /\ SumLen(part_chunks) > 100) => result.game_count > 1)

ClosedWitness ==
    /\ pc = "done"
    /\ SumLen(part_chunks) > 100
    /\ result.game_count >= 3
    /\ \E k \in 1..Len(output_pgns) : Len(output_pgns[k].moves) = 100
    /\ \E k \in 1..(Len(output_pgns) - 1) : Len(output_pgns[k].moves) < 100

(***************************************************************************)
(* C9: the k-th Part closed carries PartNumber k (from 1, no gap, no       *)
(* duplicate), every Part carries the file's name and type, game_count is  *)
(* the number of Parts and move_counts[k-1] the number of moves pushed     *)
(* into Part k.                                                            *)
(***************************************************************************)
PartsNumbered ==
    /\ \A k \in 1..Len(output_pgns) :
          /\ output_pgns[k].PartNumber = ToString(k)
          /\ output_pgns[k].FileName = <<file_path.stem, file_path.ext>>
          /\ output_pgns[k].FileType = output_pgns[1].FileType
          /\ output_pgns[k].FileType \in {"txt", "bin", ""}
    /\ pc = "done" =>
          /\ result.game_count = Len(output_pgns)
          /\ Len(result.move_counts) = Len(output_pgns)
          /\ \A k \in 1..Len(output_pgns) : result.move_counts[k] = Len(part_chunks[k])

PartsNumberedWitness ==
    /\ pc = "done"
    /\ result.game_count >= 3
    /\ output_pgns[3].PartNumber = "3"
    /\ \E k \in 1..Len(output_pgns) : result.move_counts[k] = 100

(***************************************************************************)
(* C10: in every encode step the truncated index map is the power-of-two   *)
(* prefix of the legal moves: ordinals 0 .. 2^width - 1 and no others,     *)
(* each mapped to the width-bit binary of its ordinal, so the map is       *)
(* injective and every width-bit window matches exactly one move.          *)
(***************************************************************************)
StepWidth == MaxBinaryLength(Len(LegalMoves(chess_board)), file_bits_count - file_bit_index)

StepMap == MoveBits(LegalMoves(chess_board), StepWidth)

InEncodeStep == pc = "loop" /\ moves_in_current_game < 100

MapIsPowerOfTwoPrefix ==
    InEncodeStep =>
        LET width == StepWidth
            map == StepMap
            legal == LegalMoves(chess_board)
        IN  /\ Len(map) = Pow2(width)
            /\ \A i \in 1..Len(map) :
                  /\ map[i].uci = legal[i]
                  /\ Len(map[i].bin) = width
                  /\ BitVal(map[i].bin) = i - 1
            /\ \A i, j \in 1..Len(map) : map[i].bin = map[j].bin => i = j
            /\ \A window \in [1..width -> {0, 1}] :
                  Cardinality({ i \in 1..Len(map) : map[i].bin = window }) = 1

MapWitness ==
    /\ InEncodeStep
    /\ Len(LegalMoves(chess_board)) = 8
    /\ StepWidth = 1
    /\ Len(StepMap) = 2

\* C11: two encode runs over the same bytes return the same thing: the same
\* Parts in the same order with the same moves and metadata, the same game
\* count and the same move counts.
EncodeDeterministic ==
    (pc = "done" /\ first_result # NoResult) => result = first_result

EncodeTwiceWitness ==
    /\ pc = "done"
    /\ first_result # NoResult
    /\ first_result.kind = "dict"
    /\ first_result.game_count >= 2


\* moves pushed so far by the encode call, over closed Parts and the open game
MovesEmitted ==
    SumLen([k \in 1..Len(output_pgns) |-> output_pgns[k].moves]) + Len(move_stack)

\* C12: every encoder step that computes a width starts from a position with
\* at least 2 legal moves and at least 1 unread bit, so its width is at least
\* 1; a step advances the cursor exactly when it pushes exactly one move; a
\* loop iteration that does not advance the cursor is a cap close, which
\* resets the move counter; so at most 8*len(buffer) moves are ever pushed.
EncoderProgress ==
    /\ [](InEncodeStep =>
            /\ Len(LegalMoves(chess_board)) >= 2
            /\ file_bit_index < file_bits_count
            /\ StepWidth >= 1)
    /\ [][file_bit_index' > file_bit_index => MovesEmitted' = MovesEmitted + 1]_vars
    /\ [][MovesEmitted' # MovesEmitted => file_bit_index' > file_bit_index]_vars
    /\ [](MovesEmitted <= 8 * Len(file_bytes))
    /\ [](pc = "error" => file_bytes = << >>)
    /\ [][(pc = "loop" /\ file_bit_index' = file_bit_index) =>
              (moves_in_current_game = 100 /\ moves_in_current_game' = 0 /\ pc' = "loop")]_vars

EncoderProgressWitness ==
    /\ pc = "done"
    /\ MovesEmitted > 100
    /\ MovesEmitted < 8 * Len(file_bytes)

\* the step about to be taken is clamped by the end of the file
StepClamped ==
    /\ InEncodeStep
    /\ Len(LegalMoves(chess_board)) >= 1
    /\ StepWidth < Log2Floor(Len(LegalMoves(chess_board)))

\* every window but the one of the final move of the final Part has full width
OnlyFinalMoveClamped ==
    /\ \A k \in 1..(Len(output_pgns) - 1) :
          WidthsFull(output_pgns[k].moves, part_chunks[k], InitialPos)
    /\ Len(output_pgns) >= 1 =>
          WidthsFull(SubSeq(LastMoves, 1, Len(LastMoves) - 1),
                     SubSeq(part_chunks[Len(part_chunks)], 1, Len(LastMoves) - 1),
                     InitialPos)

\* C13: the bit cursor never decreases, never exceeds the bit count of the
\* input and equals it exactly when the loop has ended; a clamped step ends
\* the loop and its move is the final move of the final Part, so there is at
\* most one per call.
CursorMonotoneAndClampLast ==
    /\ [][file_bit_index' >= file_bit_index]_vars
    /\ [](pc \in {"loop", "return", "done"} =>
            /\ file_bit_index <= file_bits_count
            /\ (file_bit_index = file_bits_count <=> pc \in {"return", "done"}))
    /\ [][StepClamped =>
            /\ pc' = "return"
            /\ Len(output_pgns') = Len(output_pgns) + 1
            /\ Len(output_pgns'[Len(output_pgns')].moves) = Len(move_stack) + 1]_vars
    /\ [](pc = "return" => OnlyFinalMoveClamped)

ClampLastWitness ==
    /\ pc = "return"
    /\ FinalMoveClamped
    /\ Len(output_pgns) >= 2

\* every bit decode has produced so far: the bytes written, then the accumulator
DecodedStream == AllBits(out_file) \o output_data

\* the step just taken replayed a legal move of the current game
MoveReplayed == dpc = "games" /\ game_i' = game_i /\ move_i' = move_i + 1

\* the bits that step added to the decoded stream
AppendedBits == SubSeq(DecodedStream', Len(DecodedStream) + 1, Len(DecodedStream'))

\* the ordinal of the move that step replayed
ReplayedOrdinal == IndexOf(LegalMoves(board), moves_list[game_i][move_i + 1])

DecoderAppendsWidthBits ==
    [][MoveReplayed =>
          /\ SubSeq(DecodedStream', 1, Len(DecodedStream)) = DecodedStream
          /\ Len(AppendedBits) = Log2Floor(Len(LegalMoves(board)))]_vars

\* C14 (amended): a decoder step appends the ordinal of its move in binary,
\* zero-padded to floor(log2(legal moves)) bits but never cut: exactly width
\* bits when the ordinal is below 2^width and the width is at least 1, the
\* longer unpadded binary of the ordinal when it is 2^width or more, and the
\* single bit 0 when the width is 0.
DecoderAppendsPaddedOrdinal ==
    [][MoveReplayed =>
          LET width == Log2Floor(Len(LegalMoves(board)))
              i == ReplayedOrdinal
          IN  /\ SubSeq(DecodedStream', 1, Len(DecodedStream)) = DecodedStream
              /\ BitVal(AppendedBits) = i
              /\ Len(AppendedBits) =
                    IF i < Pow2(width) /\ width >= 1 THEN width
                    ELSE IF i = 0 THEN 1 ELSE Log2Floor(i) + 1]_vars

\* a move of ordinal 2 has been replayed at a position of width 1, and a move at
\* a position with one legal move
PaddedOrdinalWitness ==
    /\ dpc = "games"
    /\ game_i >= 1
    /\ move_i = 3
    /\ moves_list[game_i] = <<1, 1, 1>>
    /\ Len(DecodedStream) = 4 + (IF game_i = 2 THEN Len(PartBits(moves_list[1], InitialPos)) ELSE 0)

\* C15: for every cursor and width with width <= remaining bits and
\* (cursor mod 8) + width <= 16, the window has exactly width bits and they are
\* bits [cursor, cursor + width) of the flattened file, also when the cursor is
\* in the last byte and the pool holds one byte only.
WindowIsSlice ==
    (/\ win.kind = "window"
     /\ win.width <= file_bits_count - win.cursor
     /\ (win.cursor % 8) + win.width <= 16) =>
        /\ Len(win.chunk) = win.width
        /\ win.chunk = SubSeq(AllBits(file_bytes), win.cursor + 1, win.cursor + win.width)

WindowWitness ==
    /\ win.kind = "window"
    /\ Len(file_bytes) = 3
    /\ win.cursor = 19
    /\ win.width = 5
    /\ win.chunk = <<0, 0, 0, 1, 1>>

\* C16: every Part holds at least 1 and at most 100 moves; the per-game
\* counter counts the moves of the open game and never exceeds 100; a cap
\* close happens with unread bits left, so a move follows it.
PartSizesBounded ==
    /\ [](/\ moves_in_current_game <= MAX_MOVES_PER_GAME
          /\ moves_in_current_game = Len(move_stack)
          /\ \A k \in 1..Len(output_pgns) :
                /\ Len(output_pgns[k].moves) >= 1
                /\ Len(output_pgns[k].moves) <= MAX_MOVES_PER_GAME)
    /\ [][(pc = "loop" /\ moves_in_current_game = MAX_MOVES_PER_GAME) =>
              /\ pc' = "loop"
              /\ moves_in_current_game' = 0
              /\ file_bit_index' < file_bits_count]_vars
    /\ [][(pc = "loop" /\ moves_in_current_game = 0 /\ output_pgns # << >>) =>
              (moves_in_current_game' = 1 \/ Len(output_pgns'[Len(output_pgns')].moves) = 1)]_vars

PartSizesWitness ==
    /\ pc = "done"
    /\ \E k \in 1..(Len(output_pgns) - 1) : Len(output_pgns[k].moves) = MAX_MOVES_PER_GAME
    /\ \E k \in 1..Len(output_pgns) : Len(output_pgns[k].moves) <= 2

\* C17: decoding the Parts of encode(b) writes exactly len(b) bytes; all of
\* them but possibly the last equal the bytes of b; the bits left in the
\* accumulator at the end number floor(log2(legal moves)) at the final move
\* minus the width of the window that chose it, zero exactly when the final
\* move was not clamped.
ClampDamageInLastByte ==
    (pc = "done" /\ AllGamesReplayed) =>
        /\ Len(out_file) = Len(file_bytes)
        /\ \A i \in 1..(Len(file_bytes) - 1) : out_file[i] = file_bytes[i]
        /\ Len(output_data) = Log2Floor(Len(LegalMoves(FinalPos))) - Len(FinalChunk)
        /\ (output_data = << >>) <=> ~FinalMoveClamped

ClampDamageWitness ==
    /\ pc = "done"
    /\ AllGamesReplayed
    /\ FinalMoveClamped
    /\ Len(file_bytes) >= 2
    /\ out_file # file_bytes
    /\ Len(output_data) = 2

\* C19: when decode fails, on a move that is not legal at its step or on the
\* final metadata fetch, the output file holds what it held before the call
\* (nothing, for the fresh file the caller passes).
FailedDecodeLeavesFile ==
    dpc = "error" => out_file = << >>

\* decode was called by the last retrieve request
DecodeCalled == retrieved # NoResult /\ retrieved.game_ids # << >>

\* C18: the move sequences retrieve passes to decode are ordered by part
\* number and hold each part number of the file exactly once, whatever
\* start_game calls came before.
RetrievePartsOnce ==
    DecodeCalled =>
        /\ \A i \in 1..(Len(retrieved.parts) - 1) : retrieved.parts[i] <= retrieved.parts[i + 1]
        /\ \A i, j \in 1..Len(retrieved.parts) :
              retrieved.parts[i] = retrieved.parts[j] => i = j

\* C20: a retrieve request that answers success decoded the complete move
\* list of every game it read: no game's thread was still posting moves or
\* had stopped after a failed move.
RetrieveOnlyComplete ==
    retrieved.kind = "success" =>
        \A k \in 1..Len(retrieved.game_ids) :
            retrieved.all_moves[k] = threads[retrieved.game_ids[k]].moves_list

\* the bot whose turn it is at a move index: white (the first bot) on even ones
SideToMove(move_index) == IF move_index % 2 = 0 THEN "BOT1" ELSE "BOT2"

\* C21: the server is sent the moves of a game in move-list order, a move only
\* after the one before it was accepted; a move is tried at most once with each
\* token, first with the token of the side to move; a thread whose two tries
\* failed has stopped: it posts no later move and no resignation; the
\* resignation is posted at most once, after every move was accepted.
ThreadPostsInOrder ==
    /\ [](\A g \in 1..Len(threads) :
            LET t == threads[g]
            IN  /\ lichess[g].moves = SubSeq(t.moves_list, 1, t.move_index)
                /\ Len(t.tried) <= 2
                /\ \A i, j \in 1..Len(t.tried) : t.tried[i] = t.tried[j] => i = j
                /\ t.tried # << >> => t.tried[1] = SideToMove(t.move_index)
                /\ t.state = "run" => Len(t.tried) <= 1
                /\ t.state = "failed" =>
                      /\ Len(t.tried) = 2
                      /\ t.move_index < Len(t.moves_list)
                      /\ lichess[g].resigns = 0
                /\ lichess[g].resigns <= 1
                /\ lichess[g].resigns = 1 =>
                      /\ t.state = "done"
                      /\ lichess[g].moves = t.moves_list)
    /\ [][\A g \in 1..Len(threads) :
            /\ threads[g].state \in {"failed", "done"} =>
                  (threads'[g] = threads[g] /\ lichess'[g] = lichess[g])
            /\ lichess'[g].moves # lichess[g].moves =>
                  /\ threads[g].move_index = Len(lichess[g].moves)
                  /\ lichess'[g].moves =
                        Append(lichess[g].moves, threads[g].moves_list[threads[g].move_index + 1])
            /\ lichess'[g].resigns # lichess[g].resigns =>
                  /\ lichess[g].resigns = 0
                  /\ lichess[g].moves = threads[g].moves_list]_vars

ThreadStoppedWitness ==
    /\ Len(threads) = 1
    /\ threads[1].state = "failed"
    /\ threads[1].move_index = 1
    /\ threads[1].tried = <<"BOT2", "BOT1">>
    /\ Len(threads[1].moves_list) = 3
    /\ lichess[1].resigns = 0

\* the metadata records stored for a game id
RecordsOf(game_id) == SelectSeq(metadata, LAMBDA m : m.game_id = game_id)

\* a start_game call that returns gave the k-th game of the PGN the k-th
\* created id, stored its record with part = k and started its thread on the
\* k-th game's moves
StartGameOrdered ==
    started.kind = "ids" =>
          /\ Len(started.game_ids) = Len(started.games)
          /\ \A k \in 1..Len(started.game_ids) :
                LET id == started.game_ids[k]
                IN  /\ id = started.game_ids[1] + k - 1
                    /\ RecordsOf(id) = << [game_id |-> id, file_name |-> started.file_name,
                                           part |-> k] >>
                    /\ threads[id].moves_list = started.games[k]
                    /\ threads[id].state # "none"

\* C22: start_game creates and records the games in Part order and returns
\* their ids in that order (StartGameOrdered); a call that raises because a
\* game could not be created started no thread and left no metadata record of
\* its own behind.
StartGameAllOrNothing ==
    /\ StartGameOrdered
    /\ started.kind = "ValueError" =>
          \A k \in 1..Len(started.game_ids) :
              LET id == started.game_ids[k]
              IN  /\ threads[id].state = "none"
                  /\ RecordsOf(id) = << >>

\* every store_game_metadata call has returned or raised
AllStoresOver == \A c \in 1..Len(stores) : stores[c].pc \in {"done", "raised"}

\* C23: whatever the interleaving of concurrent store_game_metadata calls,
\* once all of them are over the metadata file holds exactly one record for
\* every call, and find_games_by_filename never reads a file that is cut or
\* partly written.
NoMetadataLost ==
    /\ (stores # << >> /\ AllStoresOver) =>
          /\ meta_file = "whole"
          /\ \A c \in 1..Len(stores) :
                Len(SelectSeq(metadata, LAMBDA m : m = stores[c].rec)) = 1
    /\ found.kind # "JSONDecodeError"

\* the first half of the claim alone: no record is lost
NoRecordLost ==
    (stores # << >> /\ AllStoresOver) =>
        \A c \in 1..Len(stores) :
            Len(SelectSeq(metadata, LAMBDA m : m = stores[c].rec)) = 1

\* the second half alone: no reader sees a cut file
NoCutFileRead == found.kind # "JSONDecodeError"

=============================================================================
